---------------------------- MODULE Spec2Model ----------------------------
(***************************************************************************)
(* Patient-intake voice bot (examples/patient-intake/bot.py).              *)
(*                                                                         *)
(* The model follows main() from the creation of the empty context to the  *)
(* running pipeline, and IntakeProcessor.save_visit_reason statement by    *)
(* statement, split at its two awaits.  The pipeline engine (aggregators,  *)
(* language-model processor, text-to-speech, runner) is imported by the    *)
(* program; the parts of it the dialogue depends on are modelled from the  *)
(* call sites in main() and from the written specification.                *)
(***************************************************************************)
EXTENDS Integers, Sequences, FiniteSets, TLC

(* ------------------------------ bounds -------------------------------- *)
MaxCalls == 2
MaxUserTurns == 1
MaxTexts == 1
MaxChunks == 2

MaxFrames == 2
MaxWaiting == 1
MaxAppends == 3

CallIds == 1..MaxCalls

(* ------------------------------ pipeline ------------------------------- *)
(* Pipeline([transport.input(), context_aggregator.user(), llm, fl, tts,   *)
(*           transport.output(), context_aggregator.assistant()])          *)
NumProcessors == 7

Processors == 1..NumProcessors

Directions == {"DOWNSTREAM", "UPSTREAM"}

(* link l joins processor l and processor l + 1 *)
Links == 1..(NumProcessors - 1)

LinkDirs == Links \X Directions

(* the tasks of the one event loop that write Context *)
Tasks == {"user_aggregator", "assistant_aggregator", "save_visit_reason"}

(* ---------------------- message and tool literals ---------------------- *)
SystemScript == [role |-> "system", content |-> "Praxis Dr. Pfeiffer: Begruessen, nach dem Grund fragen"]

EmergencyResponse == "Notfall: Akutsprechstunde 8:00-10:00, Bereitschaftsdienst 116117"

RoutineResponse == "Grund notiert, wir finden einen passenden Termin"

ClosingInstruction == [role |-> "system", content |-> "Danken Sie dem Benutzer und beenden Sie das Gespraech hoeflich."]

UserTurn == [role |-> "user", content |-> "transcript"]

AssistantTurn == [role |-> "assistant", content |-> "completion"]

(* "is_emergency" left out of the required list *)
SaveVisitReasonToolReasonOnly == [name |-> "save_visit_reason", required |-> {"reason"}]

SaveVisitReasonTool == [name |-> "save_visit_reason", required |-> {"reason", "is_emergency"}]

SeedTools == {SaveVisitReasonTool}

(* ------------------------- tool-call arguments ------------------------- *)
(* Python values are written as their repr, so that values of different    *)
(* types can sit in one mapping: "True", "False", "'nein'" (a non-empty    *)
(* string), "'Fieber'".                                                    *)
NoArgs == [k \in {} |-> "None"]

ArgsSet ==
    { NoArgs,
      [k \in {"reason"} |-> "'Fieber'"],
      [k \in {"is_emergency"} |-> "True"],
      [k \in {"reason", "is_emergency"} |-> IF k = "reason" THEN "'Brustschmerzen'" ELSE "True"],
      [k \in {"reason", "is_emergency"} |-> IF k = "reason" THEN "'Fieber'" ELSE "False"],
      [k \in {"reason", "is_emergency"} |-> IF k = "reason" THEN "''" ELSE "'nein'"] }

FunctionNames == {"save_visit_reason", "get_weather"}

(* args[key]: raises KeyError for a missing key *)
DictIndex(args, key, default) ==
    [raised |-> key \notin DOMAIN args, val |-> IF key \in DOMAIN args THEN args[key] ELSE default]

(* dict.get(key, default): never raises, yields the default for a missing key *)
DictGet(args, key, default) ==
    [raised |-> FALSE, val |-> IF key \in DOMAIN args THEN args[key] ELSE default]

(* Python truth value of a value written as its repr *)
Truthy(v) == v \notin {"False", "None", "''", "0"}

(* the two responses taken the wrong way round *)
ResponseForSwapped(is_emergency) ==
    IF Truthy(is_emergency) THEN RoutineResponse ELSE EmergencyResponse

(* lines 103-108: the branch on is_emergency *)
ResponseFor(is_emergency) ==
    IF Truthy(is_emergency) THEN EmergencyResponse ELSE RoutineResponse

(* PipelineParams(allow_interruptions=True) *)
allow_interruptions_enabled == TRUE

(* PipelineParams(allow_interruptions=False) *)
allow_interruptions == FALSE

(* ------------------------------- state --------------------------------- *)
VARIABLES
    mainPc,        \* position of main(): "created", "seeded", "registered", "running", "cancelling", "stopped"
    messages,      \* context.messages
    tools,         \* context.tools
    registered,    \* function names registered at the language-model service
    joined,        \* on_first_participant_joined has fired
    llmQueue,      \* LLMContext frames queued at the language-model processor, by origin
    calls,         \* per tool call: position of its handler and its arguments
    results,       \* per tool call: number of ToolResults emitted
    utterance,     \* assistant utterance in synthesis: chunks, sent, bargedIn
    played,        \* utterances that left synthesis: chunks, sent, bargedIn
    interruptions, \* UPSTREAM interruption ControlSignals emitted
    nUser,         \* user transcripts delivered
    linkQ,         \* per link and direction: frames emitted and not yet delivered
    emitted,       \* per link and direction: frames in the order they were emitted
    delivered,     \* per link and direction: frames in the order they were delivered
    nFrames,       \* frames created so far
    waiting,       \* processors suspended in an await
    loop,          \* the tasks the event loop is running
    taskPc,        \* per task that writes Context: "idle" or "appending"
    ctx,           \* Context's message slots as the writers fill them
    nAppends       \* appends started so far

dialogueVars == <<mainPc, messages, tools, registered, joined, llmQueue, calls,
                  results, utterance, played, interruptions, nUser>>

linkVars == <<linkQ, emitted, delivered, nFrames, waiting>>

loopVars == <<loop, taskPc, ctx, nAppends>>

vars == <<dialogueVars, linkVars, loopVars>>

NoCall == [pc |-> "none", name |-> "none", args |-> NoArgs]

NoUtterance == [chunks |-> 0, sent |-> 0, bargedIn |-> FALSE]

(* the state after lines 157-159: an empty context and its aggregator pair *)
Init ==
    /\ mainPc = "created"
    /\ messages = << >>
    /\ tools = {}
    /\ registered = {}
    /\ joined = FALSE
    /\ llmQueue = << >>
    /\ calls = [c \in CallIds |-> NoCall]
    /\ results = [c \in CallIds |-> 0]
    /\ utterance = NoUtterance
    /\ played = << >>
    /\ interruptions = 0
    /\ nUser = 0
    /\ linkQ = [ld \in LinkDirs |-> << >>]
    /\ emitted = [ld \in LinkDirs |-> << >>]
    /\ delivered = [ld \in LinkDirs |-> << >>]
    /\ nFrames = 0
    /\ waiting = {}
    /\ loop = {}
    /\ taskPc = [t \in Tasks |-> "idle"]
    /\ ctx = << >>
    /\ nAppends = 0

(* ------------------------------ main() --------------------------------- *)
(* IntakeProcessor.__init__: add the system script, set the one tool *)
IntakeProcessorInit ==
    /\ mainPc = "created"
    /\ messages' = Append(messages, SystemScript)
    /\ tools' = SeedTools
    /\ mainPc' = "seeded"
    /\ UNCHANGED <<registered, joined, llmQueue, calls, results, utterance,
                   played, interruptions, nUser>>
    /\ UNCHANGED <<linkVars, loopVars>>

(* llm.register_function("save_visit_reason", intake.save_visit_reason) *)
RegisterFunction ==
    /\ mainPc = "seeded"
    /\ registered' = registered \cup {"save_visit_reason"}
    /\ mainPc' = "registered"
    /\ UNCHANGED <<messages, tools, joined, llmQueue, calls, results,
                   utterance, played, interruptions, nUser>>
    /\ UNCHANGED <<linkVars, loopVars>>

(* the task queues the context before the runner starts, not on the join event *)
RunnerRunQueuesContext ==
    /\ mainPc = "registered"
    /\ mainPc' = "running"
    /\ llmQueue' = Append(llmQueue, [src |-> "task", call |-> 0])
    /\ UNCHANGED <<messages, tools, registered, joined, calls,
                   results, utterance, played, interruptions, nUser>>
    /\ UNCHANGED <<linkVars, loopVars>>

(* Pipeline, PipelineTask, event handler installed, runner.run(task) entered *)
RunnerRun ==
    /\ mainPc = "registered"
    /\ mainPc' = "running"
    /\ UNCHANGED <<messages, tools, registered, joined, llmQueue, calls,
                   results, utterance, played, interruptions, nUser>>
    /\ UNCHANGED <<linkVars, loopVars>>

(* on_first_participant_joined: task.queue_frames([OpenAILLMContextFrame(context)]) *)
OnFirstParticipantJoined ==
    /\ mainPc = "running"
    /\ ~joined
    /\ joined' = TRUE
    /\ llmQueue' = Append(llmQueue, [src |-> "task", call |-> 0])
    /\ UNCHANGED <<mainPc, messages, tools, registered, calls, results,
                   utterance, played, interruptions, nUser>>
    /\ UNCHANGED <<linkVars, loopVars>>

(* --------------------- pipeline around the language model -------------- *)
Suspended(pc) == pc \in {"await_result", "result_done", "await_queue"}

(* a processor handles one frame at a time: the language-model service     *)
(* awaits the handler of a ToolCall before it takes its next frame          *)
LLMIdle == \A c \in CallIds : ~Suspended(calls[c].pc)

InSynthesis(u) == u.chunks > 0 /\ u.sent < u.chunks

(* a user transcript pre-empts the utterance in synthesis only when the    *)
(* task allows interruptions                                               *)
Interrupts(u) == allow_interruptions /\ InSynthesis(u)

(* context_aggregator.user(): a final transcript is appended as a user turn *)
(* and the context is pushed to the language model                          *)
UserTranscript ==
    /\ mainPc = "running"
    /\ joined
    /\ nUser < MaxUserTurns
    /\ nUser' = nUser + 1
    /\ messages' = Append(messages, UserTurn)
    /\ llmQueue' = Append(llmQueue, [src |-> "user", call |-> 0])
    /\ IF Interrupts(utterance)
          THEN /\ interruptions' = interruptions + 1
               /\ played' = Append(played, [utterance EXCEPT !.bargedIn = TRUE])
               /\ utterance' = NoUtterance
          ELSE /\ interruptions' = interruptions
               /\ played' = played
               /\ utterance' = [utterance EXCEPT !.bargedIn = @ \/ InSynthesis(utterance)]
    /\ UNCHANGED <<mainPc, tools, registered, joined, calls, results>>
    /\ UNCHANGED <<linkVars, loopVars>>

(* the language model answers a queued context with assistant text, which  *)
(* the text-to-speech service starts to synthesize                          *)
LLMText ==
    /\ mainPc = "running"
    /\ LLMIdle
    /\ llmQueue # << >>
    /\ utterance = NoUtterance
    /\ Len(played) < MaxTexts
    /\ \E n \in 1..MaxChunks :
          utterance' = [chunks |-> n, sent |-> 0, bargedIn |-> FALSE]
    /\ llmQueue' = Tail(llmQueue)
    /\ UNCHANGED <<mainPc, messages, tools, registered, joined, calls,
                   results, played, interruptions, nUser>>
    /\ UNCHANGED <<linkVars, loopVars>>

(* one synthesized audio chunk reaches transport.output() *)
TTSChunk ==
    /\ mainPc = "running"
    /\ InSynthesis(utterance)
    /\ utterance' = [utterance EXCEPT !.sent = @ + 1]
    /\ UNCHANGED <<mainPc, messages, tools, registered, joined, llmQueue,
                   calls, results, played, interruptions, nUser>>
    /\ UNCHANGED <<linkVars, loopVars>>

(* context_aggregator.assistant(): the spoken text is appended as an        *)
(* assistant turn                                                           *)
AssistantAppend ==
    /\ mainPc = "running"
    /\ utterance.chunks > 0
    /\ utterance.sent = utterance.chunks
    /\ messages' = Append(messages, AssistantTurn)
    /\ played' = Append(played, utterance)
    /\ utterance' = NoUtterance
    /\ UNCHANGED <<mainPc, tools, registered, joined, llmQueue, calls,
                   results, interruptions, nUser>>
    /\ UNCHANGED <<linkVars, loopVars>>

(* ------------------- IntakeProcessor.save_visit_reason ------------------ *)
(* the handler registered as a catch-all for every function name *)
DispatchesAnyName(name) == TRUE

(* the service calls a handler for the function names registered with it *)
Dispatches(name) == name \in registered

(* lines 97-110, up to the first await: read the arguments, pick the       *)
(* response, append it as an assistant message                              *)
SaveVisitReasonStart(c, function_name, args) ==
    LET reason       == DictGet(args, "reason", "''")
        is_emergency == DictGet(args, "is_emergency", "False")
    IN  IF reason.raised \/ is_emergency.raised
           THEN /\ calls' = [calls EXCEPT ![c] = [pc |-> "raised", name |-> function_name, args |-> args]]
                /\ messages' = messages
           ELSE /\ calls' = [calls EXCEPT ![c] = [pc |-> "await_result", name |-> function_name, args |-> args]]
                /\ messages' = Append(messages, [role |-> "assistant", content |-> ResponseFor(is_emergency.val)])

(* the language model answers a queued context with a ToolCall; the call   *)
(* ids are handed out in order.  A call to a name with no handler starts   *)
(* no handler, so nothing of it is kept but its name.                       *)
LLMToolCall(c, name, args) ==
    /\ mainPc = "running"
    /\ LLMIdle
    /\ llmQueue # << >>
    /\ calls[c].pc = "none"
    /\ \A d \in CallIds : d < c => calls[d].pc # "none"
    /\ llmQueue' = Tail(llmQueue)
    /\ IF Dispatches(name)
          THEN SaveVisitReasonStart(c, name, args)
          ELSE /\ calls' = [calls EXCEPT ![c] = [pc |-> "ignored", name |-> name, args |-> NoArgs]]
               /\ messages' = messages
    /\ UNCHANGED <<mainPc, tools, registered, joined, results, utterance,
                   played, interruptions, nUser>>
    /\ UNCHANGED <<linkVars, loopVars>>

(* the handler goes on without calling result_callback *)
ResultCallbackSkipped(c) ==
    /\ mainPc = "running"
    /\ calls[c].pc = "await_result"
    /\ calls' = [calls EXCEPT ![c].pc = "result_done"]
    /\ UNCHANGED <<mainPc, messages, tools, registered, joined, llmQueue,
                   results, utterance, played, interruptions, nUser>>
    /\ UNCHANGED <<linkVars, loopVars>>

(* line 111: await result_callback(None) emits the ToolResult of the call *)
ResultCallback(c) ==
    /\ mainPc = "running"
    /\ calls[c].pc = "await_result"
    /\ results' = [results EXCEPT ![c] = @ + 1]
    /\ calls' = [calls EXCEPT ![c].pc = "result_done"]
    /\ UNCHANGED <<mainPc, messages, tools, registered, joined, llmQueue,
                   utterance, played, interruptions, nUser>>
    /\ UNCHANGED <<linkVars, loopVars>>

(* the handler replaces the message list by the closing instruction *)
EndConversationResetsHistory(c) ==
    /\ mainPc = "running"
    /\ calls[c].pc = "result_done"
    /\ tools' = {}
    /\ messages' = <<ClosingInstruction>>
    /\ calls' = [calls EXCEPT ![c].pc = "await_queue"]
    /\ UNCHANGED <<mainPc, registered, joined, llmQueue, results, utterance,
                   played, interruptions, nUser>>
    /\ UNCHANGED <<linkVars, loopVars>>

(* the handler forgets set_tools([]) *)
EndConversationKeepsTools(c) ==
    /\ mainPc = "running"
    /\ calls[c].pc = "result_done"
    /\ messages' = Append(messages, ClosingInstruction)
    /\ calls' = [calls EXCEPT ![c].pc = "await_queue"]
    /\ UNCHANGED <<mainPc, tools, registered, joined, llmQueue, results,
                   utterance, played, interruptions, nUser>>
    /\ UNCHANGED <<linkVars, loopVars>>

(* the handler empties the tool set but appends no closing instruction *)
EndConversationNoInstruction(c) ==
    /\ mainPc = "running"
    /\ calls[c].pc = "result_done"
    /\ tools' = {}
    /\ calls' = [calls EXCEPT ![c].pc = "await_queue"]
    /\ UNCHANGED <<mainPc, messages, registered, joined, llmQueue, results,
                   utterance, played, interruptions, nUser>>
    /\ UNCHANGED <<linkVars, loopVars>>

(* lines 114-117: the handler resumes, empties the tool set and appends    *)
(* the closing system instruction                                           *)
EndConversation(c) ==
    /\ mainPc = "running"
    /\ calls[c].pc = "result_done"
    /\ tools' = {}
    /\ messages' = Append(messages, ClosingInstruction)
    /\ calls' = [calls EXCEPT ![c].pc = "await_queue"]
    /\ UNCHANGED <<mainPc, registered, joined, llmQueue, results, utterance,
                   played, interruptions, nUser>>
    /\ UNCHANGED <<linkVars, loopVars>>

(* the handler offers the tool again before it queues the context *)
QueueContextFrameRestoresTools(c) ==
    /\ mainPc = "running"
    /\ calls[c].pc = "await_queue"
    /\ tools' = SeedTools
    /\ llmQueue' = Append(llmQueue, [src |-> "handler", call |-> c])
    /\ calls' = [calls EXCEPT ![c] = [pc |-> "done", name |-> @.name, args |-> NoArgs]]
    /\ UNCHANGED <<mainPc, messages, registered, joined, results,
                   utterance, played, interruptions, nUser>>
    /\ UNCHANGED <<linkVars, loopVars>>

(* the frame is queued UPSTREAM, away from the language model *)
QueueContextFrameUpstream(c) ==
    /\ mainPc = "running"
    /\ calls[c].pc = "await_queue"
    /\ calls' = [calls EXCEPT ![c] = [pc |-> "done", name |-> @.name, args |-> NoArgs]]
    /\ UNCHANGED <<mainPc, messages, tools, registered, joined, llmQueue,
                   results, utterance, played, interruptions, nUser>>
    /\ UNCHANGED <<linkVars, loopVars>>

(* line 118: await llm.queue_frame(OpenAILLMContextFrame(context), DOWNSTREAM); *)
(* the handler returns and its locals are gone                               *)
QueueContextFrame(c) ==
    /\ mainPc = "running"
    /\ calls[c].pc = "await_queue"
    /\ llmQueue' = Append(llmQueue, [src |-> "handler", call |-> c])
    /\ calls' = [calls EXCEPT ![c] = [pc |-> "done", name |-> @.name, args |-> NoArgs]]
    /\ UNCHANGED <<mainPc, messages, tools, registered, joined, results,
                   utterance, played, interruptions, nUser>>
    /\ UNCHANGED <<linkVars, loopVars>>

(* ------------------------------ shutdown ------------------------------- *)
(* the handler keeps running through a cancellation: its awaits are        *)
(* shielded or it swallows the CancelledError                              *)
CancellableNever(pc) == FALSE

(* lines 111 and 118: the handler's awaits stand in no try block, so a     *)
(* CancelledError raised at either of them leaves the handler               *)
Cancellable(pc) == Suspended(pc)

(* transport hangup or explicit stop: the runner cancels the task *)
Cancel ==
    /\ mainPc = "running"
    /\ mainPc' = "cancelling"
    /\ UNCHANGED <<messages, tools, registered, joined, llmQueue, calls,
                   results, utterance, played, interruptions, nUser>>
    /\ UNCHANGED <<linkVars, loopVars>>

(* the CancelledError is raised at the await the handler is suspended in *)
Unwind(c) ==
    /\ mainPc = "cancelling"
    /\ Suspended(calls[c].pc)
    /\ Cancellable(calls[c].pc)
    /\ calls' = [calls EXCEPT ![c] = [pc |-> "cancelled", name |-> @.name, args |-> NoArgs]]
    /\ UNCHANGED <<mainPc, messages, tools, registered, joined, llmQueue,
                   results, utterance, played, interruptions, nUser>>
    /\ UNCHANGED <<linkVars, loopVars>>

(* line 191: await runner.run(task) returns once nothing is pending *)
RunnerReturn ==
    /\ mainPc = "cancelling"
    /\ \A c \in CallIds : ~Suspended(calls[c].pc)
    /\ mainPc' = "stopped"
    /\ UNCHANGED <<messages, tools, registered, joined, llmQueue, calls,
                   results, utterance, played, interruptions, nUser>>
    /\ UNCHANGED <<linkVars, loopVars>>

(* ---------------------------- specification ---------------------------- *)
Next ==
    \/ IntakeProcessorInit
    \/ RegisterFunction
    \/ RunnerRun
    \/ OnFirstParticipantJoined
    \/ UserTranscript
    \/ LLMText
    \/ TTSChunk
    \/ AssistantAppend
    \/ \E c \in CallIds, name \in FunctionNames, args \in ArgsSet : LLMToolCall(c, name, args)
    \/ \E c \in CallIds : ResultCallback(c)
    \/ \E c \in CallIds : EndConversation(c)
    \/ \E c \in CallIds : QueueContextFrame(c)
    \/ Cancel
    \/ \E c \in CallIds : Unwind(c)
    \/ RunnerReturn

Spec == Init /\ [][Next]_vars

(* --------------------------- pipeline links ---------------------------- *)
(* the link a frame of processor p takes in direction dir, if there is one *)
HasLink(p, dir) == IF dir = "DOWNSTREAM" THEN p < NumProcessors ELSE p > 1

LinkOf(p, dir) == IF dir = "DOWNSTREAM" THEN <<p, dir>> ELSE <<p - 1, dir>>

(* the processor at the receiving end of a link *)
Receiver(ld) == IF ld[2] = "DOWNSTREAM" THEN ld[1] + 1 ELSE ld[1]

(* processor p emits a new frame in direction dir *)
Emit(p, dir) ==
    /\ nFrames < MaxFrames
    /\ p \notin waiting
    /\ HasLink(p, dir)
    /\ LET ld == LinkOf(p, dir)
           f  == nFrames + 1
       IN  /\ linkQ' = [linkQ EXCEPT ![ld] = Append(@, f)]
           /\ emitted' = [emitted EXCEPT ![ld] = Append(@, f)]
    /\ nFrames' = nFrames + 1
    /\ UNCHANGED <<delivered, waiting>>
    /\ UNCHANGED <<dialogueVars, loopVars>>

(* the link hands over the frame emitted last *)
DeliverNewestFirst(ld) ==
    /\ linkQ[ld] # << >>
    /\ Receiver(ld) \notin waiting
    /\ delivered' = [delivered EXCEPT ![ld] = Append(@, linkQ[ld][Len(linkQ[ld])])]
    /\ linkQ' = [linkQ EXCEPT ![ld] = SubSeq(@, 1, Len(@) - 1)]
    /\ UNCHANGED <<emitted, nFrames, waiting>>
    /\ UNCHANGED <<dialogueVars, loopVars>>

(* the neighbour takes the oldest frame of the link, unless it is suspended *)
Deliver(ld) ==
    /\ linkQ[ld] # << >>
    /\ Receiver(ld) \notin waiting
    /\ delivered' = [delivered EXCEPT ![ld] = Append(@, Head(linkQ[ld]))]
    /\ linkQ' = [linkQ EXCEPT ![ld] = Tail(@)]
    /\ UNCHANGED <<emitted, nFrames, waiting>>
    /\ UNCHANGED <<dialogueVars, loopVars>>

(* a processor suspends in an await on a collaborator, and resumes *)
Suspend(p) ==
    /\ p \notin waiting
    /\ Cardinality(waiting) < MaxWaiting
    /\ waiting' = waiting \cup {p}
    /\ UNCHANGED <<linkQ, emitted, delivered, nFrames>>
    /\ UNCHANGED <<dialogueVars, loopVars>>

Resume(p) ==
    /\ p \in waiting
    /\ waiting' = waiting \ {p}
    /\ UNCHANGED <<linkQ, emitted, delivered, nFrames>>
    /\ UNCHANGED <<dialogueVars, loopVars>>

NextLinks ==
    \/ \E p \in Processors, dir \in Directions : Emit(p, dir)
    \/ \E ld \in LinkDirs : Deliver(ld)
    \/ \E p \in Processors : Suspend(p)
    \/ \E p \in Processors : Resume(p)

LinkSpec == Init /\ [][NextLinks]_vars

(* ------------------------- writers of the Context ---------------------- *)
(* asyncio.run(main()): one event loop, one task running at a time *)
LoopFree == loop = {}

(* add_message is awaited, so a task can be suspended inside an append *)
CanSuspendMidAppend(pc) == TRUE

(* context.add_message(...) is a plain call with no await in it: a task    *)
(* can be suspended only between appends                                    *)
CanSuspend(pc) == pc # "appending"

(* the event loop resumes a task *)
Schedule(t) ==
    /\ LoopFree
    /\ t \notin loop
    /\ loop' = loop \cup {t}
    /\ UNCHANGED <<taskPc, ctx, nAppends>>
    /\ UNCHANGED <<dialogueVars, linkVars>>

(* the running task reaches an await and gives the loop back *)
Await(t) ==
    /\ t \in loop
    /\ CanSuspend(taskPc[t])
    /\ loop' = loop \ {t}
    /\ UNCHANGED <<taskPc, ctx, nAppends>>
    /\ UNCHANGED <<dialogueVars, linkVars>>

(* add_message: the slot is taken ... *)
BeginAppend(t) ==
    /\ t \in loop
    /\ taskPc[t] = "idle"
    /\ nAppends < MaxAppends
    /\ ctx' = Append(ctx, [by |-> t, whole |-> FALSE])
    /\ taskPc' = [taskPc EXCEPT ![t] = "appending"]
    /\ nAppends' = nAppends + 1
    /\ UNCHANGED loop
    /\ UNCHANGED <<dialogueVars, linkVars>>

(* ... and the message is in it *)
EndAppend(t) ==
    /\ t \in loop
    /\ taskPc[t] = "appending"
    /\ ctx' = [i \in DOMAIN ctx |->
                  IF ctx[i].by = t THEN [by |-> t, whole |-> TRUE] ELSE ctx[i]]
    /\ taskPc' = [taskPc EXCEPT ![t] = "idle"]
    /\ UNCHANGED <<loop, nAppends>>
    /\ UNCHANGED <<dialogueVars, linkVars>>

NextLoop ==
    \/ \E t \in Tasks : Schedule(t)
    \/ \E t \in Tasks : Await(t)
    \/ \E t \in Tasks : BeginAppend(t)
    \/ \E t \in Tasks : EndAppend(t)

LoopSpec == Init /\ [][NextLoop]_vars

(* The two specifications with fairness follow the dialogue controller and *)
(* the processors that feed it.  The speech path (LLMText, TTSChunk,       *)
(* AssistantAppend) never reads or writes the position of a handler or of  *)
(* main(), so it can neither enable nor disable a step of theirs.          *)
NextUncancelled ==
    \/ IntakeProcessorInit
    \/ RegisterFunction
    \/ RunnerRun
    \/ OnFirstParticipantJoined
    \/ UserTranscript
    \/ \E c \in CallIds, name \in FunctionNames, args \in ArgsSet : LLMToolCall(c, name, args)
    \/ \E c \in CallIds : ResultCallback(c)
    \/ \E c \in CallIds : EndConversation(c)
    \/ \E c \in CallIds : QueueContextFrame(c)

NextCancellable ==
    \/ NextUncancelled
    \/ Cancel
    \/ \E c \in CallIds : Unwind(c)
    \/ RunnerReturn

(* a cancelled task gets its CancelledError the next time the event loop   *)
(* schedules it, and the runner returns when its tasks have ended          *)
CancelSpec ==
    /\ Init
    /\ [][NextCancellable]_vars
    /\ WF_vars(\E c \in CallIds : Unwind(c))
    /\ WF_vars(RunnerReturn)

(* no cancellation; the event loop resumes every handler whose await has   *)
(* completed                                                               *)
FairDialogueSpec ==
    /\ Init
    /\ [][NextUncancelled]_vars
    /\ \A c \in CallIds :
          /\ WF_vars(ResultCallback(c))
          /\ WF_vars(EndConversation(c))
          /\ WF_vars(QueueContextFrame(c))

(* ------------------------- helpers of the properties ------------------- *)
IsPrefix(s, t) == Len(s) <= Len(t) /\ SubSeq(t, 1, Len(s)) = s

Count(seq, m) == Cardinality({i \in DOMAIN seq : seq[i] = m})

BranchMessages ==
    {i \in DOMAIN messages :
        /\ messages[i].role = "assistant"
        /\ messages[i].content \in {EmergencyResponse, RoutineResponse}}

(* the step in which the handler of call c is entered *)
Invoked(c) ==
    /\ calls[c].pc = "none"
    /\ calls'[c].pc \notin {"none", "ignored"}

(* between the first and the last Context mutation of the handler of c *)
MidHandling(c) == calls[c].pc \in {"await_result", "result_done"}

(* the dialogue state as it is encoded in the Context *)
DialogueState ==
    IF mainPc = "created" THEN "Unseeded"
    ELSE IF mainPc \in {"cancelling", "stopped"} THEN "Closed"
    ELSE IF tools = {} THEN "Closing"
    ELSE IF \E i \in BranchMessages : messages[i].content = EmergencyResponse
        THEN "Classified-Emergency"
    ELSE IF BranchMessages # {} THEN "Classified-Routine"
    ELSE IF Len(messages) = 1 THEN "Greeting"
    ELSE "CollectingReason"

(* ------------------------------ properties ----------------------------- *)
(* C1: every invocation of save_visit_reason appends exactly one assistant *)
(* message: the emergency message when is_emergency is true, the routine   *)
(* message when it is false or omitted; and when the handler has           *)
(* completed the tool set is empty.                                        *)
C1_BranchByEmergency ==
    [][\A c \in CallIds :
          /\ Invoked(c) =>
                LET a == calls'[c].args
                    m == messages'[Len(messages')]
                IN  /\ Len(messages') = Len(messages) + 1
                    /\ IsPrefix(messages, messages')
                    /\ m.role = "assistant"
                    /\ ("is_emergency" \in DOMAIN a /\ a["is_emergency"] = "True")
                          => m.content = EmergencyResponse
                    /\ ("is_emergency" \notin DOMAIN a \/ a["is_emergency"] = "False")
                          => m.content = RoutineResponse
          /\ calls'[c].pc = "done" => tools' = {}]_vars

C1_Witness ==
    \E c \in CallIds :
        /\ calls[c].pc = "done"
        /\ tools = {}
        /\ \E i \in DOMAIN messages :
              messages[i] = [role |-> "assistant", content |-> EmergencyResponse]

(* C2: save_visit_reason is single-use: whatever the number of             *)
(* save_visit_reason calls, Context holds at most one branch message and   *)
(* at most one closing instruction, and at most one handler has queued a   *)
(* context frame.                                                          *)
C2_SingleUse ==
    /\ Cardinality(BranchMessages) <= 1
    /\ Count(messages, ClosingInstruction) <= 1
    /\ Cardinality({c \in CallIds : calls[c].pc = "done"}) <= 1

(* C3: every save_visit_reason call gets at most one ToolResult, has       *)
(* exactly one once the handler is past its result callback, and has none  *)
(* while no handler-queued context frame can exist yet.                    *)
C3_OneResultBeforeQueue ==
    \A c \in CallIds :
        /\ results[c] <= 1
        /\ calls[c].pc \in {"result_done", "await_queue", "done"} => results[c] = 1
        /\ calls[c].pc \in {"none", "ignored", "await_result"} => results[c] = 0
        /\ (\E i \in DOMAIN llmQueue : llmQueue[i] = [src |-> "handler", call |-> c])
              => results[c] = 1

C3_Witness ==
    \E c \in CallIds :
        /\ calls[c].pc = "done"
        /\ results[c] = 1
        /\ \E i \in DOMAIN llmQueue : llmQueue[i] = [src |-> "handler", call |-> c]

(* C4: while a save_visit_reason call is between its first and its last    *)
(* Context mutation, no aggregator appends to Context and no completion    *)
(* request reads it.                                                       *)
C4_AtomicHandling ==
    [][(\E c \in CallIds : MidHandling(c)) =>
          ~ \/ UserTranscript
            \/ AssistantAppend
            \/ LLMText
            \/ \E c \in CallIds, name \in FunctionNames, args \in ArgsSet :
                  LLMToolCall(c, name, args)]_vars

(* C5: in every step the old message list is a prefix of the new one. *)
C5_AppendOnly == [][IsPrefix(messages, messages')]_vars

C5_Witness ==
    /\ Count(messages, UserTurn) >= 1
    /\ Count(messages, AssistantTurn) >= 1
    /\ BranchMessages # {}
    /\ Count(messages, ClosingInstruction) >= 1

(* C6: once the dialogue is in Closing the tool set stays empty and the    *)
(* dialogue state stays Closing until hangup makes it Closed.              *)
C6_ClosingIsFinal ==
    [][DialogueState = "Closing" =>
          /\ tools' = {}
          /\ DialogueState' \in {"Closing", "Closed"}]_vars

C6_Witness ==
    /\ DialogueState = "Closing"
    /\ \E c, d \in CallIds : calls[c].pc = "done" /\ calls[d].pc = "await_result"

(* C7: no argument mapping makes the handler fail: each invocation gets to *)
(* the result callback, takes the routine branch when is_emergency is      *)
(* missing, and past the callback has its ToolResult, and past line 117    *)
(* an empty tool set and the closing instruction.                          *)
C7_MalformedArgsAccepted ==
    [][\A c \in CallIds :
          /\ Invoked(c) =>
                /\ calls'[c].pc = "await_result"
                /\ "is_emergency" \notin DOMAIN calls'[c].args =>
                      messages'[Len(messages')] =
                          [role |-> "assistant", content |-> RoutineResponse]
          /\ calls'[c].pc # "raised"
          /\ calls'[c].pc \in {"await_queue", "done"} =>
                /\ results'[c] = 1
                /\ tools' = {}
                /\ Count(messages', ClosingInstruction) >= 1]_vars

C7_Witness ==
    \E c \in CallIds :
        /\ calls[c].pc = "await_queue"
        /\ calls[c].args = NoArgs
        /\ results[c] = 1
        /\ DialogueState = "Closing"
        /\ messages[Len(messages) - 1] = [role |-> "assistant", content |-> RoutineResponse]

(* C8: right after the controller is constructed on the empty Context,     *)
(* Context holds exactly one message, the system script, and the tool set  *)
(* holds exactly save_visit_reason with required reason and is_emergency.  *)
C8_GreetingSeed ==
    mainPc \in {"seeded", "registered"} =>
        /\ Len(messages) = 1
        /\ messages[1].role = "system"
        /\ messages[1].content = SystemScript.content
        /\ Cardinality(tools) = 1
        /\ \A t \in tools :
              /\ t.name = "save_visit_reason"
              /\ t.required = {"reason", "is_emergency"}

C8_Witness == mainPc = "seeded" /\ DialogueState = "Greeting"

(* C9: as long as no save_visit_reason ToolCall was made, the tool set is  *)
(* the seeded one and Context is the system script followed by user and    *)
(* assistant turns only.                                                   *)
C9_TextTurnsKeepState ==
    (mainPc # "created" /\ \A c \in CallIds : calls[c].name # "save_visit_reason") =>
        /\ tools = {[name |-> "save_visit_reason", required |-> {"reason", "is_emergency"}]}
        /\ messages[1] = SystemScript
        /\ \A i \in 2..Len(messages) : messages[i] \in {UserTurn, AssistantTurn}

C9_Witness ==
    /\ \A c \in CallIds : calls[c].name # "save_visit_reason"
    /\ \E c \in CallIds : calls[c].name = "get_weather"
    /\ Count(messages, UserTurn) >= 1
    /\ Count(messages, AssistantTurn) >= 1

(* C10: no interruption signal is ever emitted, no utterance in synthesis  *)
(* is dropped or cut by a user transcript, and every utterance that left   *)
(* synthesis was delivered in full.                                        *)
C10_NoBargeIn ==
    /\ interruptions = 0
    /\ \A i \in DOMAIN played : played[i].sent = played[i].chunks
    /\ utterance.bargedIn => utterance.chunks > 0

C10_Witness ==
    \E i \in DOMAIN played :
        /\ played[i].bargedIn
        /\ played[i].chunks >= 2
        /\ played[i].sent = played[i].chunks

(* number of context frames that the handler of call c has in the queue *)
HandlerFrames(q, c) ==
    Cardinality({i \in DOMAIN q : q[i] = [src |-> "handler", call |-> c]})

TaskFrames(q) ==
    Cardinality({i \in DOMAIN q : q[i] = [src |-> "task", call |-> 0]})

BranchBeforeClosing ==
    \E i, j \in DOMAIN messages :
        /\ i < j
        /\ i \in BranchMessages
        /\ messages[j] = ClosingInstruction

(* C13: once cancellation has arrived, in whatever state of the pipeline,  *)
(* the suspended handlers are unwound and runner.run returns.              *)
C13_CancelUnwinds ==
    (mainPc = "cancelling") ~>
        (mainPc = "stopped" /\ \A c \in CallIds : ~Suspended(calls[c].pc))

C13_Witness ==
    /\ mainPc = "stopped"
    /\ \E c \in CallIds : calls[c].pc = "cancelled" /\ results[c] = 0
    /\ \E c \in CallIds : calls[c].pc = "done"

(* C14: a handler-queued context frame enters the language model's queue   *)
(* only in the handler's last step, one per call, and at that step Context *)
(* holds the branch message before the closing instruction and the tool    *)
(* set is empty.                                                           *)
C14_QueueAfterMutations ==
    [][\A c \in CallIds :
          /\ HandlerFrames(llmQueue', c) > HandlerFrames(llmQueue, c) =>
                /\ calls[c].pc = "await_queue"
                /\ calls'[c].pc = "done"
                /\ tools = {}
                /\ BranchBeforeClosing
          /\ (calls[c].pc = "await_queue" /\ calls'[c].pc = "done") =>
                /\ llmQueue' = Append(llmQueue, [src |-> "handler", call |-> c])
                /\ HandlerFrames(llmQueue, c) = 0
                /\ tools = {}
                /\ BranchBeforeClosing]_vars

C14_Witness ==
    \E c \in CallIds :
        /\ calls[c].pc = "done"
        /\ HandlerFrames(llmQueue, c) = 1
        /\ tools = {}
        /\ BranchBeforeClosing

(* C15: with fair scheduling and no cancellation, a save_visit_reason call *)
(* delivered while the tool is offered leads to Closing: its ToolResult is *)
(* emitted, the tool set is empty, the closing instruction is in Context   *)
(* and its context frame is queued at the language model.                  *)
C15_CallLeadsToClosing ==
    \A c \in CallIds :
        (calls[c].pc = "await_result" /\ tools # {}) ~>
            /\ calls[c].pc = "done"
            /\ results[c] = 1
            /\ tools = {}
            /\ Count(messages, ClosingInstruction) >= 1
            /\ HandlerFrames(llmQueue, c) = 1

C15_Witness ==
    /\ mainPc = "running"
    /\ \E c \in CallIds :
          /\ calls[c].pc = "done"
          /\ results[c] = 1
          /\ HandlerFrames(llmQueue, c) = 1
    /\ DialogueState = "Closing"
    /\ Count(messages, UserTurn) >= 1

(* C16: before the first participant has joined no context frame is queued *)
(* and no completion has been asked for; the join event queues exactly one *)
(* task frame, with Context as seeded, and no other step queues one.       *)
C16_FirstInjectionOnJoin ==
    [][/\ ~joined' =>
             /\ llmQueue' = << >>
             /\ \A c \in CallIds : calls'[c].pc = "none"
             /\ utterance' = NoUtterance /\ played' = << >>
       /\ (~joined /\ joined') =>
             /\ llmQueue' = <<[src |-> "task", call |-> 0]>>
             /\ messages' = <<SystemScript>>
             /\ tools' = SeedTools
       /\ TaskFrames(llmQueue') > TaskFrames(llmQueue) => (~joined /\ joined')]_vars

C16_Witness ==
    /\ joined
    /\ llmQueue = <<[src |-> "task", call |-> 0]>>
    /\ messages = <<SystemScript>>

(* C17: from the construction of the controller on, the tool set is empty  *)
(* exactly when the closing instruction is in Context, and it is either    *)
(* empty or exactly the save_visit_reason tool.                            *)
C17_StateEncodedInContext ==
    mainPc # "created" =>
        /\ (tools = {}) <=> (Count(messages, ClosingInstruction) >= 1)
        /\ tools = {} \/ tools = {SaveVisitReasonTool}

C17_Witness ==
    /\ tools = {}
    /\ Count(messages, ClosingInstruction) >= 1
    /\ \E c \in CallIds : calls[c].pc = "await_queue"

(* C11: on every link and in each direction the frames delivered so far   *)
(* are the first frames emitted, in the order they were emitted.           *)
C11_LinkFifo ==
    \A ld \in LinkDirs : IsPrefix(delivered[ld], emitted[ld])

C11_Witness ==
    \E ld \in LinkDirs :
        /\ Len(delivered[ld]) >= 2
        /\ waiting # {}
        /\ Receiver(ld) \notin waiting

(* C12: at most one task is inside an append to Context at any time, a     *)
(* message that is not yet whole is the last one and belongs to the task   *)
(* appending it, and no task ever resumes to see a message that is not     *)
(* whole.                                                                  *)
C12_SingleWriter ==
    /\ Cardinality({t \in Tasks : taskPc[t] = "appending"}) <= 1
    /\ \A i \in DOMAIN ctx :
          ~ctx[i].whole => (i = Len(ctx) /\ taskPc[ctx[i].by] = "appending")
    /\ loop = {} => \A i \in DOMAIN ctx : ctx[i].whole

C12_Witness ==
    /\ \E i \in DOMAIN ctx : ctx[i] = [by |-> "user_aggregator", whole |-> TRUE]
    /\ \E i \in DOMAIN ctx : ctx[i] = [by |-> "assistant_aggregator", whole |-> FALSE]
    /\ "assistant_aggregator" \in loop

=============================================================================
